---------------------------- MODULE Spec2Model ----------------------------
(***************************************************************************)
(* Chronos-Core: conversion of a Gregorian timestamp and a longitude into  *)
(* the four sexagenary pillars.                                            *)
(*                                                                         *)
(*   chronos/astronomy.py    equation of time, true solar time             *)
(*   chronos/cyclic_math.py  CyclicVariable (base-60 arithmetic)           *)
(*   chronos/converter.py    TemporalCoordinateEngine.get_coordinates      *)
(*                                                                         *)
(* Time is kept to the second.  Every input timestamp of the model is a    *)
(* whole second, so the calendar date and the hour of the solar instant    *)
(* are decided by the floor of the correction to whole seconds; the        *)
(* sub-second part of the correction only shows in the ISO string of the   *)
(* metadata, which the model does not carry.                               *)
(***************************************************************************)
EXTENDS Integers, Sequences, FiniteSets, TLC

(***************************************************************************)
(* Bounds of the model.                                                    *)
(***************************************************************************)
\* hours the clock may advance from a starting instant
MaxHours == 30
\* CyclicVariable is constructed from the integers -MaxIndex .. 59 + MaxIndex
MaxIndex == 3

(***************************************************************************)
(* datetime: the proleptic Gregorian calendar of the standard library,     *)
(* on which the source relies for dt.year, dt.month, dt.hour, tm_yday,     *)
(* datetime - datetime and datetime + timedelta.                           *)
(* A datetime is [ord, sec, aware, off]: the ordinal of its calendar date  *)
(* (0001-01-01 is 1), the second of its day, whether it carries a tzinfo,  *)
(* and the UTC offset of that tzinfo in seconds.  ord and sec are the      *)
(* wall-clock fields, as in Python.                                        *)
(***************************************************************************)
IsLeap(y) == y % 4 = 0 /\ (y % 100 # 0 \/ y % 400 = 0)

DaysBeforeYear(y) ==
  LET y1 == y - 1 IN y1 * 365 + (y1 \div 4) - (y1 \div 100) + (y1 \div 400)

DAYS_BEFORE_MONTH == << 0, 31, 59, 90, 120, 151, 181, 212, 243, 273, 304, 334 >>

DAYS_IN_MONTH == << 31, 28, 31, 30, 31, 30, 31, 31, 30, 31, 30, 31 >>

DaysBeforeMonth(y, m) ==
  DAYS_BEFORE_MONTH[m] + (IF m > 2 /\ IsLeap(y) THEN 1 ELSE 0)

Ymd2Ord(y, m, d) == DaysBeforeYear(y) + DaysBeforeMonth(y, m) + d

\* ordinal -> [year, month, day], the divmod cascade over 400/100/4/1-year cycles
Ord2Ymd(ord) ==
  LET n0   == ord - 1
      n400 == n0 \div 146097
      r400 == n0 % 146097
      n100 == r400 \div 36524
      r100 == r400 % 36524
      n4   == r100 \div 1461
      r4   == r100 % 1461
      n1   == r4 \div 365
      n    == r4 % 365
      year == n400 * 400 + 1 + n100 * 100 + n4 * 4 + n1
  IN  IF n1 = 4 \/ n100 = 4
      THEN [year |-> year - 1, month |-> 12, day |-> 31]
      ELSE
        LET leap  == n1 = 3 /\ (n4 # 24 \/ n100 = 3)
            m0    == (n + 50) \div 32
            pre0  == DAYS_BEFORE_MONTH[m0] + (IF m0 > 2 /\ leap THEN 1 ELSE 0)
            month == IF pre0 > n THEN m0 - 1 ELSE m0
            pre   == IF pre0 > n
                     THEN pre0 - (DAYS_IN_MONTH[month]
                                   + (IF month = 2 /\ leap THEN 1 ELSE 0))
                     ELSE pre0
        IN  [year |-> year, month |-> month, day |-> n - pre + 1]

\* datetime(y, m, d, h): a naive datetime
Datetime(y, m, d, h) ==
  [ord |-> Ymd2Ord(y, m, d), sec |-> h * 3600, aware |-> FALSE, off |-> 0]

YearOf(dt)  == Ord2Ymd(dt.ord).year
MonthOf(dt) == Ord2Ymd(dt.ord).month
HourOf(dt)  == dt.sec \div 3600

\* dt.timetuple().tm_yday
DayOfYear(dt) == dt.ord - Ymd2Ord(YearOf(dt), 1, 1) + 1

\* datetime + timedelta(seconds = s): wall-clock fields shifted, tzinfo kept
PlusSeconds(dt, s) ==
  LET total == dt.sec + s
  IN  [dt EXCEPT !.ord = dt.ord + (total \div 86400), !.sec = total % 86400]

\* dt.replace(tzinfo = timezone(offset)): fields kept, tzinfo attached
ReplaceTz(dt, aware, off) == [dt EXCEPT !.aware = aware, !.off = off]

\* dt.astimezone(timezone.utc) of an aware datetime
AsUtc(dt) == ReplaceTz(PlusSeconds(dt, 0 - dt.off), TRUE, 0)

TypeError == [status |-> "TypeError"]

\* a - b for two datetimes: a timedelta [days, seconds] with 0 <= seconds < 86400;
\* mixing a naive and an aware operand raises TypeError
DatetimeSub(a, b) ==
  IF a.aware # b.aware THEN TypeError
  ELSE LET secs == (a.sec - a.off) - (b.sec - b.off)
       IN  [status  |-> "ok",
            days    |-> (a.ord - b.ord) + (secs \div 86400),
            seconds |-> secs % 86400]

(***************************************************************************)
(* astronomy.py                                                            *)
(***************************************************************************)
\* math.sin and math.cos at the angles 2*pi*k/365, k = 0..364, times 10^6 and
\* rounded: the only angles calculate_equation_of_time evaluates them at for an
\* integer day_of_year (B = 2*pi*(day_of_year - 81)/365).
SIN_365 ==
  << 0, 17213, 34422, 51620, 68802, 85965, 103102, 120208,
     137279, 154309, 171293, 188227, 205104, 221922, 238673, 255353,
     271958, 288482, 304921, 321270, 337523, 353676, 369725, 385663,
     401488, 417194, 432776, 448229, 463550, 478734, 493776, 508671,
     523416, 538005, 552435, 566702, 580800, 594727, 608477, 622047,
     635432, 648630, 661635, 674444, 687053, 699458, 711657, 723644,
     735417, 746972, 758306, 769415, 780296, 790946, 801361, 811539,
     821477, 831171, 840618, 849817, 858764, 867456, 875892, 884068,
     891981, 899631, 907014, 914128, 920971, 927542, 933837, 939856,
     945596, 951057, 956235, 961130, 965740, 970064, 974100, 977848,
     981306, 984474, 987349, 989932, 992222, 994218, 995919, 997325,
     998435, 999250, 999769, 999991, 999917, 999546, 998880, 997917,
     996659, 995105, 993257, 991114, 988678, 985948, 982927, 979614,
     976011, 972118, 967938, 963471, 958718, 953681, 948362, 942761,
     936881, 930724, 924291, 917584, 910605, 903356, 895839, 888057,
     880012, 871706, 863142, 854322, 845249, 835925, 826354, 816538,
     806480, 796183, 785650, 774884, 763889, 752667, 741222, 729558,
     717677, 705584, 693281, 680773, 668064, 655156, 642055, 628763,
     615285, 601624, 587785, 573772, 559589, 545240, 530730, 516062,
     501242, 486273, 471160, 455907, 440519, 425000, 409356, 393590,
     377708, 361714, 345612, 329408, 313107, 296713, 280231, 263665,
     247022, 230306, 213521, 196673, 179767, 162807, 145799, 128748,
     111659, 94537, 77386, 60213, 43022, 25818, 8607, -8607,
     -25818, -43022, -60213, -77386, -94537, -111659, -128748, -145799,
     -162807, -179767, -196673, -213521, -230306, -247022, -263665, -280231,
     -296713, -313107, -329408, -345612, -361714, -377708, -393590, -409356,
     -425000, -440519, -455907, -471160, -486273, -501242, -516062, -530730,
     -545240, -559589, -573772, -587785, -601624, -615285, -628763, -642055,
     -655156, -668064, -680773, -693281, -705584, -717677, -729558, -741222,
     -752667, -763889, -774884, -785650, -796183, -806480, -816538, -826354,
     -835925, -845249, -854322, -863142, -871706, -880012, -888057, -895839,
     -903356, -910605, -917584, -924291, -930724, -936881, -942761, -948362,
     -953681, -958718, -963471, -967938, -972118, -976011, -979614, -982927,
     -985948, -988678, -991114, -993257, -995105, -996659, -997917, -998880,
     -999546, -999917, -999991, -999769, -999250, -998435, -997325, -995919,
     -994218, -992222, -989932, -987349, -984474, -981306, -977848, -974100,
     -970064, -965740, -961130, -956235, -951057, -945596, -939856, -933837,
     -927542, -920971, -914128, -907014, -899631, -891981, -884068, -875892,
     -867456, -858764, -849817, -840618, -831171, -821477, -811539, -801361,
     -790946, -780296, -769415, -758306, -746972, -735417, -723644, -711657,
     -699458, -687053, -674444, -661635, -648630, -635432, -622047, -608477,
     -594727, -580800, -566702, -552435, -538005, -523416, -508671, -493776,
     -478734, -463550, -448229, -432776, -417194, -401488, -385663, -369725,
     -353676, -337523, -321270, -304921, -288482, -271958, -255353, -238673,
     -221922, -205104, -188227, -171293, -154309, -137279, -120208, -103102,
     -85965, -68802, -51620, -34422, -17213 >>

COS_365 ==
  << 1000000, 999852, 999407, 998667, 997630, 996298, 994671, 992749,
     990532, 988023, 985220, 982126, 978740, 975065, 971100, 966848,
     962309, 957485, 952378, 946988, 941317, 935368, 929141, 922640,
     915864, 908818, 901502, 893919, 886071, 877960, 869589, 860961,
     852078, 842942, 833556, 823923, 814046, 803928, 793572, 782980,
     772157, 761104, 749826, 738326, 726608, 714673, 702527, 690173,
     677615, 664855, 651899, 638749, 625411, 611886, 598181, 584298,
     570242, 556017, 541628, 527078, 512371, 497513, 482508, 467359,
     452072, 436651, 421101, 405426, 389630, 373720, 357698, 341571,
     325342, 309017, 292600, 276097, 259512, 242850, 226116, 209315,
     192452, 175531, 158559, 141540, 124479, 107381, 90252, 73095,
     55917, 38722, 21516, 4304, -12910, -30120, -47321, -64508,
     -81676, -98820, -115935, -133015, -150055, -167052, -183998, -200891,
     -217723, -234491, -251190, -267814, -284359, -300820, -317191, -333469,
     -349647, -365723, -381689, -397543, -413279, -428892, -444378, -459733,
     -474951, -490029, -504961, -519744, -534373, -548843, -563151, -577292,
     -591261, -605056, -618671, -632103, -645348, -658402, -671260, -683919,
     -696376, -708627, -720667, -732494, -744104, -755493, -766659, -777597,
     -788305, -798779, -809017, -819015, -828770, -838280, -847541, -856551,
     -865307, -873807, -882048, -890028, -897743, -905193, -912375, -919286,
     -925925, -932289, -938377, -944188, -949718, -954967, -959933, -964614,
     -969010, -973118, -976938, -980469, -983709, -986658, -989314, -991677,
     -993747, -995521, -997001, -998186, -999074, -999667, -999963, -999963,
     -999667, -999074, -998186, -997001, -995521, -993747, -991677, -989314,
     -986658, -983709, -980469, -976938, -973118, -969010, -964614, -959933,
     -954967, -949718, -944188, -938377, -932289, -925925, -919286, -912375,
     -905193, -897743, -890028, -882048, -873807, -865307, -856551, -847541,
     -838280, -828770, -819015, -809017, -798779, -788305, -777597, -766659,
     -755493, -744104, -732494, -720667, -708627, -696376, -683919, -671260,
     -658402, -645348, -632103, -618671, -605056, -591261, -577292, -563151,
     -548843, -534373, -519744, -504961, -490029, -474951, -459733, -444378,
     -428892, -413279, -397543, -381689, -365723, -349647, -333469, -317191,
     -300820, -284359, -267814, -251190, -234491, -217723, -200891, -183998,
     -167052, -150055, -133015, -115935, -98820, -81676, -64508, -47321,
     -30120, -12910, 4304, 21516, 38722, 55917, 73095, 90252,
     107381, 124479, 141540, 158559, 175531, 192452, 209315, 226116,
     242850, 259512, 276097, 292600, 309017, 325342, 341571, 357698,
     373720, 389630, 405426, 421101, 436651, 452072, 467359, 482508,
     497513, 512371, 527078, 541628, 556017, 570242, 584298, 598181,
     611886, 625411, 638749, 651899, 664855, 677615, 690173, 702527,
     714673, 726608, 738326, 749826, 761104, 772157, 782980, 793572,
     803928, 814046, 823923, 833556, 842942, 852078, 860961, 869589,
     877960, 886071, 893919, 901502, 908818, 915864, 922640, 929141,
     935368, 941317, 946988, 952378, 957485, 962309, 966848, 971100,
     975065, 978740, 982126, 985220, 988023, 990532, 992749, 994671,
     996298, 997630, 998667, 999407, 999852 >>

Sin365(k) == SIN_365[(k % 365) + 1]

Cos365(k) == COS_365[(k % 365) + 1]

MINUTES_PER_DEGREE_LONGITUDE == 4

\* _to_utc: a naive datetime is taken as UTC, an aware one is converted
to_utc(dt) == IF ~dt.aware THEN ReplaceTz(dt, TRUE, 0) ELSE AsUtc(dt)

\* calculate_equation_of_time(day_of_year), in units of 10^-8 minutes:
\* 9.87*sin(2B) - 7.53*cos(B) - 1.5*sin(B).  No check of day_of_year is made.
calculate_equation_of_time(day_of_year) ==
  LET k == day_of_year - 81
  IN  (987 * Sin365(2 * k)) - (753 * Cos365(k)) - (150 * Sin365(k))

\* floor of a duration of e * 10^-8 minutes to whole seconds (e * 60 / 10^8)
MinutesE8ToSeconds(e) == 3 * (e \div 5000000) + ((3 * (e % 5000000)) \div 5000000)

\* timedelta(minutes = geo_offset_minutes + eot_minutes), floored to seconds
TotalOffsetSeconds(longitude, eot) ==
  (longitude * MINUTES_PER_DEGREE_LONGITUDE * 60) + MinutesE8ToSeconds(eot)

\* get_true_solar_time with the equation of time left out of the offset
get_true_solar_time_no_eot(dt, longitude) ==
  LET dt_utc       == to_utc(dt)
      total_offset == TotalOffsetSeconds(longitude, 0)
      solar_time   == PlusSeconds(dt_utc, total_offset)
  IN  ReplaceTz(solar_time, FALSE, 0)

\* get_true_solar_time(dt, longitude): a naive datetime
get_true_solar_time(dt, longitude) ==
  LET dt_utc       == to_utc(dt)
      day_of_year  == DayOfYear(dt_utc)
      eot_minutes  == calculate_equation_of_time(day_of_year)
      total_offset == TotalOffsetSeconds(longitude, eot_minutes)
      solar_time   == PlusSeconds(dt_utc, total_offset)
  IN  ReplaceTz(solar_time, FALSE, 0)

\* calculate_solar_longitude(dt) in thousandths of a degree (floor), tabulated
\* from the source's formula at each whole UTC hour of four windows: 88 hours
\* starting 8 hours before 00:00 UTC of the window's first day.
LAMBDA_W1 ==
  << 265543, 265585, 265627, 265670, 265712, 265755, 265797, 265840,
     265882, 265924, 265967, 266009, 266052, 266094, 266137, 266179,
     266221, 266264, 266306, 266349, 266391, 266433, 266476, 266518,
     266561, 266603, 266646, 266688, 266730, 266773, 266815, 266858,
     266900, 266943, 266985, 267027, 267070, 267112, 267155, 267197,
     267240, 267282, 267324, 267367, 267409, 267452, 267494, 267537,
     267579, 267621, 267664, 267706, 267749, 267791, 267834, 267876,
     267918, 267961, 268003, 268046, 268088, 268131, 268173, 268215,
     268258, 268300, 268343, 268385, 268428, 268470, 268513, 268555,
     268597, 268640, 268682, 268725, 268767, 268810, 268852, 268894,
     268937, 268979, 269022, 269064, 269107, 269149, 269192, 269234 >>

LAMBDA_W2 ==
  << 278787, 278829, 278872, 278914, 278957, 278999, 279042, 279084,
     279127, 279169, 279212, 279254, 279297, 279339, 279381, 279424,
     279466, 279509, 279551, 279594, 279636, 279679, 279721, 279764,
     279806, 279849, 279891, 279934, 279976, 280018, 280061, 280103,
     280146, 280188, 280231, 280273, 280316, 280358, 280401, 280443,
     280486, 280528, 280571, 280613, 280656, 280698, 280740, 280783,
     280825, 280868, 280910, 280953, 280995, 281038, 281080, 281123,
     281165, 281208, 281250, 281293, 281335, 281378, 281420, 281462,
     281505, 281547, 281590, 281632, 281675, 281717, 281760, 281802,
     281845, 281887, 281930, 281972, 282015, 282057, 282100, 282142,
     282184, 282227, 282269, 282312, 282354, 282397, 282439, 282482 >>

LAMBDA_W3 ==
  << 278507, 278549, 278592, 278634, 278676, 278719, 278761, 278804,
     278846, 278889, 278931, 278974, 279016, 279059, 279101, 279144,
     279186, 279229, 279271, 279313, 279356, 279398, 279441, 279483,
     279526, 279568, 279611, 279653, 279696, 279738, 279781, 279823,
     279866, 279908, 279950, 279993, 280035, 280078, 280120, 280163,
     280205, 280248, 280290, 280333, 280375, 280418, 280460, 280503,
     280545, 280588, 280630, 280672, 280715, 280757, 280800, 280842,
     280885, 280927, 280970, 281012, 281055, 281097, 281140, 281182,
     281225, 281267, 281309, 281352, 281394, 281437, 281479, 281522,
     281564, 281607, 281649, 281692, 281734, 281777, 281819, 281862,
     281904, 281947, 281989, 282031, 282074, 282116, 282159, 282201 >>

LAMBDA_W4 ==
  << 314131, 314174, 314216, 314258, 314300, 314343, 314385, 314427,
     314469, 314512, 314554, 314596, 314638, 314681, 314723, 314765,
     314808, 314850, 314892, 314934, 314977, 315019, 315061, 315103,
     315146, 315188, 315230, 315272, 315315, 315357, 315399, 315441,
     315484, 315526, 315568, 315610, 315653, 315695, 315737, 315779,
     315822, 315864, 315906, 315948, 315991, 316033, 316075, 316117,
     316160, 316202, 316244, 316286, 316329, 316371, 316413, 316455,
     316498, 316540, 316582, 316624, 316666, 316709, 316751, 316793,
     316835, 316878, 316920, 316962, 317004, 317047, 317089, 317131,
     317173, 317215, 317258, 317300, 317342, 317384, 317427, 317469,
     317511, 317553, 317596, 317638, 317680, 317722, 317764, 317807 >>

W1_ORD == Ymd2Ord(1899, 12, 18)

W2_ORD == Ymd2Ord(1899, 12, 31)

W3_ORD == Ymd2Ord(1999, 12, 31)

W4_ORD == Ymd2Ord(2000, 2, 4)

LambdaAt(table, base, u) == table[((u.ord - base) * 24) + HourOf(u) + 9]

calculate_solar_longitude(dt) ==
  LET u == to_utc(dt)
  IN  CASE u.ord >= W4_ORD - 1 -> LambdaAt(LAMBDA_W4, W4_ORD, u)
        [] u.ord >= W3_ORD - 1 -> LambdaAt(LAMBDA_W3, W3_ORD, u)
        [] u.ord >= W2_ORD - 1 -> LambdaAt(LAMBDA_W2, W2_ORD, u)
        [] OTHER               -> LambdaAt(LAMBDA_W1, W1_ORD, u)

(***************************************************************************)
(* cyclic_math.py                                                          *)
(* The module holds two class statements named CyclicVariable.  A class    *)
(* statement binds its name when it runs, so after import the name refers  *)
(* to the second one; the first is unreachable.                            *)
(***************************************************************************)
\* names defined in the body of the first class statement
FIRST_CLASS_ATTRS ==
  { "__slots__", "STEMS", "BRANCHES", "STEMS_CN", "BRANCHES_CN", "ELEMENT_VECTOR",
    "stem", "branch", "stem_cn", "branch_cn", "element", "is_clashing",
    "is_combining", "__add__", "__sub__", "__init__", "index", "stem_index",
    "branch_index" }

\* names defined in the body of the second class statement
SECOND_CLASS_ATTRS ==
  { "STEMS", "BRANCHES", "__init__", "stem", "branch", "element", "__add__",
    "__sub__", "__repr__", "to_json" }

ClassStatements == << FIRST_CLASS_ATTRS, SECOND_CLASS_ATTRS >>

\* the class the name CyclicVariable is bound to: the last statement executed
CyclicVariableClass == ClassStatements[Len(ClassStatements)]

STEMS == << "Jia", "Yi", "Bing", "Ding", "Wu", "Ji", "Geng", "Xin", "Ren", "Gui" >>

BRANCHES ==
  << "Zi", "Chou", "Yin", "Mao", "Chen", "Si", "Wu", "Wei", "Shen", "You", "Xu", "Hai" >>

ELEMENTS ==
  << "Wood", "Wood", "Fire", "Fire", "Earth", "Earth", "Metal", "Metal", "Water", "Water" >>

\* CyclicVariable(index): __init__ stores index % 60
CyclicVariable(index) == [index |-> index % 60]

stem(self) == STEMS[(self.index % 10) + 1]

branch(self) == BRANCHES[(self.index % 12) + 1]

element(self) == ELEMENTS[(self.index % 10) + 1]

to_json(self) ==
  [index |-> self.index, stem |-> stem(self), branch |-> branch(self),
   element |-> element(self)]

\* __add__ with an int operand
cv_add(self, other) == CyclicVariable(self.index + other)

\* __sub__ with a CyclicVariable operand: the distance in the cycle
cv_sub(self, other) == (self.index - other.index) % 60

\* is_combining as the first class statement defines it
is_combining(self, other) == ((self.index % 12) + (other.index % 12)) % 12 = 1

AttributeError == [status |-> "AttributeError"]

\* self.is_combining(other) on an instance of the bound class
call_is_combining(self, other) ==
  IF "is_combining" \in CyclicVariableClass
  THEN [status |-> "ok", value |-> is_combining(self, other)]
  ELSE AttributeError

\* x == y for two instances at heap addresses x and y: the bound class defines
\* no __eq__, so object.__eq__ compares identity
cv_eq(h, x, y) ==
  IF "__eq__" \in CyclicVariableClass THEN h[x].index = h[y].index ELSE x = y

(***************************************************************************)
(* converter.py: TemporalCoordinateEngine                                  *)
(***************************************************************************)
REF_DATE == Datetime(1900, 1, 1, 0)

REF_DAY_IDX == 10

\* the day count rounded to the nearest day instead of floored
days_passed_rounded(delta) == delta.days + (IF delta.seconds >= 43200 THEN 1 ELSE 0)

\* delta.days of delta = solar_dt - REF_DATE
days_passed(delta) == delta.days

\* step 3: the hour index from the day pillar and the solar hour
hour_index(day_pillar, hour) ==
  LET hour_bracket   == (hour + 1) \div 2
      start_stem_idx == ((day_pillar.index % 10) % 5) * 2
  IN  (start_stem_idx * 10 + hour_bracket) % 60

\* get_coordinates(dt, longitude) of an engine built with
\* use_astronomy_correction = precise_mode
get_coordinates(precise_mode, dt, longitude) ==
  LET solar_dt == IF precise_mode THEN get_true_solar_time(dt, longitude) ELSE dt
      delta    == DatetimeSub(solar_dt, REF_DATE)
  IN  IF delta.status # "ok" THEN TypeError
      ELSE
        LET day_idx      == (REF_DAY_IDX + days_passed(delta)) % 60
            day_pillar   == CyclicVariable(day_idx)
            hour_pillar  == CyclicVariable(hour_index(day_pillar, HourOf(solar_dt)))
            year_pillar  == CyclicVariable((YearOf(dt) - 4) % 60)
            month_pillar == CyclicVariable(MonthOf(dt) + 12)
        IN  [status      |-> "ok",
             metadata    |-> [gregorian_utc   |-> dt,
                              true_solar_time |-> solar_dt,
                              longitude       |-> longitude],
             coordinates |-> [year  |-> to_json(year_pillar),
                              month |-> to_json(month_pillar),
                              day   |-> to_json(day_pillar),
                              hour  |-> to_json(hour_pillar)]]

(***************************************************************************)
(* State.                                                                  *)
(*   now        the instant at which the caller converts, as a naive       *)
(*              datetime holding its UTC fields                            *)
(*   elapsed    hours the clock has advanced since the start               *)
(*   longitude  the observer's longitude, whole degrees                    *)
(*   res        the value of each get_coordinates call made at now, per    *)
(*              <<zone, precise_mode>>: zone is the tzinfo the caller      *)
(*              hands the instant over with                                *)
(*   last       the instant before the last advance of the clock and the   *)
(*              calls' values there                                        *)
(*   heap       CyclicVariable instances by address                        *)
(*   ret        the value of the last call on the cyclic type or on        *)
(*              the astronomy functions                                    *)
(***************************************************************************)
VARIABLES now, elapsed, longitude, res, last, heap, ret

vars == << now, elapsed, longitude, res, last, heap, ret >>

\* tzinfo of the input: none, UTC ("Z"), UTC+01:00
Zones ==
  { [aware |-> FALSE, off |-> 0], [aware |-> TRUE, off |-> 0],
    [aware |-> TRUE, off |-> 3600] }

Naive == [aware |-> FALSE, off |-> 0]

Precision == BOOLEAN

Slots == Zones \X Precision

\* the datetime denoting instant t in zone z
InputFor(t, z) == ReplaceTz(PlusSeconds(t, z.off), z.aware, z.off)

NotCalled == [status |-> "none"]

NoCalls == [k \in Slots |-> NotCalled]

StartInstants ==
  { Datetime(1899, 12, 18, 12), Datetime(1899, 12, 31, 0),
    Datetime(1999, 12, 31, 0), Datetime(2000, 2, 4, 0) }

Longitudes == { 0, 120, -90 }

NoRet == [op |-> "none"]

Init ==
  /\ now \in StartInstants
  /\ elapsed = 0
  /\ longitude \in Longitudes
  /\ res = NoCalls
  /\ last = [valid |-> FALSE, at |-> now, res |-> NoCalls]
  /\ heap = << >>
  /\ ret = NoRet

\* engine = TemporalCoordinateEngine(p); engine.get_coordinates(dt, longitude)
GetCoordinates(z, p) ==
  /\ res[<< z, p >>].status = "none"
  /\ res' = [res EXCEPT ![<< z, p >>] = get_coordinates(p, InputFor(now, z), longitude)]
  /\ UNCHANGED << now, elapsed, longitude, last, heap, ret >>

\* the clock moves on by h hours once every configuration has been converted
Advance(h) ==
  /\ \A k \in Slots : res[k].status # "none"
  /\ elapsed + h <= MaxHours
  /\ last' = [valid |-> TRUE, at |-> now, res |-> res]
  /\ now' = PlusSeconds(now, h * 3600)
  /\ elapsed' = elapsed + h
  /\ res' = NoCalls
  /\ UNCHANGED << longitude, heap, ret >>

Next ==
  \/ \E z \in Zones, p \in Precision : GetCoordinates(z, p)
  \/ \E h \in { 1, 24 } : Advance(h)

Spec == Init /\ [][Next]_vars

(***************************************************************************)
(* Properties of get_coordinates, checked under Spec.                      *)
(***************************************************************************)
Called(k) == res[k].status # "none"

Returned(k) == res[k].status = "ok"

SolarOf(r) == r.metadata.true_solar_time

Utc == [aware |-> TRUE, off |-> 0]

\* the call of C1: "1900-01-01T00:00:00Z", longitude 0, precision mode enabled
EpochCall == now = REF_DATE /\ longitude = 0 /\ Called(<< Utc, TRUE >>)

\* C1 as stated: get_coordinates("1900-01-01T00:00:00Z", longitude 0) in
\* precision mode returns the day pillar of index 10, stem Jia, branch Xu.
C1_EpochDayPillarIsTen ==
  EpochCall =>
    /\ Returned(<< Utc, TRUE >>)
    /\ res[<< Utc, TRUE >>].coordinates.day
         = [index |-> 10, stem |-> "Jia", branch |-> "Xu", element |-> "Wood"]

\* C1 as amended: in precision mode the equation of time of day-of-year 1
\* (about -3.7 minutes) puts the solar instant at 1899-12-31T23:56:17, one
\* calendar day before the reference date, and the call returns the day pillar
\* of index 9, stem Gui, branch You.
C1_EpochDayPillarIsNine ==
  EpochCall =>
    /\ Returned(<< Utc, TRUE >>)
    /\ SolarOf(res[<< Utc, TRUE >>])
         = [ord |-> REF_DATE.ord - 1, sec |-> 86177, aware |-> FALSE, off |-> 0]
    /\ res[<< Utc, TRUE >>].coordinates.day
         = [index |-> 9, stem |-> "Gui", branch |-> "You", element |-> "Water"]

C1_Witness == EpochCall /\ Returned(<< Utc, TRUE >>)

\* C2: for every returned result, the hour pillar's branch index is
\* bracketIndex = floor((h + 1) / 2) mod 12 and its stem index is
\* (s * 2 + bracketIndex) mod 10, h the solar hour and s the day pillar's stem index.
C2_HourPillarFiveRats ==
  \A k \in Slots :
    Returned(k) =>
      LET s            == res[k].coordinates.day.index % 10
          h            == HourOf(SolarOf(res[k]))
          bracketIndex == ((h + 1) \div 2) % 12
          hourIndex    == res[k].coordinates.hour.index
      IN  /\ hourIndex % 12 = bracketIndex
          /\ hourIndex % 10 = (s * 2 + bracketIndex) % 10

\* C3: when the solar instant has moved from one hour to the next, the hour
\* pillar's branch has changed exactly if the hour entered is odd (.., 23, 1, 3, ..).
C3_BranchChangesAtOddHours ==
  \A k \in Slots :
    ( /\ last.valid
      /\ now = PlusSeconds(last.at, 3600)
      /\ Returned(k)
      /\ last.res[k].status = "ok"
      /\ HourOf(SolarOf(res[k])) = (HourOf(SolarOf(last.res[k])) + 1) % 24 )
    => ( (res[k].coordinates.hour.branch # last.res[k].coordinates.hour.branch)
         <=> (HourOf(SolarOf(res[k])) % 2 = 1) )

\* C6: the same instant handed over without an offset and with a non-zero offset
\* gives the same four pillars, in both precision modes, and the offset-bearing
\* call raises no error.
C6_OffsetNormalisedToUtc ==
  \A z \in Zones, p \in Precision :
    (z.aware /\ z.off # 0 /\ Called(<< Naive, p >>) /\ Called(<< z, p >>))
    => /\ Returned(<< z, p >>)
       /\ Returned(<< Naive, p >>)
       /\ res[<< z, p >>].coordinates = res[<< Naive, p >>].coordinates

\* the instant crossed solar longitude 315 degrees between t0 and t1
CrossedLichun(t0, t1) ==
  calculate_solar_longitude(t0) < 315000 /\ calculate_solar_longitude(t1) >= 315000

\* C7: from one instant to a later one the year pillar index advances by one
\* (mod 60) if the instant crossed Lichun and stays unchanged otherwise.
C7_YearAdvancesAtLichun ==
  \A k \in Slots :
    (last.valid /\ Returned(k) /\ last.res[k].status = "ok")
    => res[k].coordinates.year.index
         = (last.res[k].coordinates.year.index
              + (IF CrossedLichun(last.at, now) THEN 1 ELSE 0)) % 60

\* C8: the same timestamp and longitude converted with precision mode enabled
\* and disabled give the same year and month pillars; with precision mode
\* disabled the solar instant is the raw timestamp.
C8_YearMonthIndependentOfPrecision ==
  \A z \in Zones :
    (Called(<< z, TRUE >>) /\ Called(<< z, FALSE >>))
    => /\ Returned(<< z, TRUE >>)
       /\ Returned(<< z, FALSE >>)
       /\ res[<< z, TRUE >>].coordinates.year = res[<< z, FALSE >>].coordinates.year
       /\ res[<< z, TRUE >>].coordinates.month = res[<< z, FALSE >>].coordinates.month
       /\ SolarOf(res[<< z, FALSE >>]) = InputFor(now, z)

\* whole calendar days from 1900-01-01 to the calendar date of solar instant s
DaysFromReference(s) == s.ord - Ymd2Ord(1900, 1, 1)

\* C10: a returned day pillar has index (10 + daysPassed) mod 60 in 0..59,
\* daysPassed the whole calendar days from 1900-01-01 to the date of the solar
\* instant (negative before it); against the conversion made before the clock
\* advanced, the same solar date gives the same day pillar and the next solar
\* date gives the index one further (mod 60).
C10_DayPillarFromCalendarDays ==
  \A k \in Slots :
    Returned(k) =>
      LET s == SolarOf(res[k])
          d == res[k].coordinates.day.index
      IN  /\ d \in 0 .. 59
          /\ d = (10 + DaysFromReference(s)) % 60
          /\ (last.valid /\ last.res[k].status = "ok") =>
               LET ps == SolarOf(last.res[k])
                   pd == last.res[k].coordinates.day.index
               IN  /\ (s.ord = ps.ord) => (d = pd)
                   /\ (s.ord = ps.ord + 1) => (d = (pd + 1) % 60)

\* a conversion before the epoch, with 10 + daysPassed negative, one solar date
\* after the conversion made before the clock advanced
C10_Witness ==
  \E k \in Slots :
    /\ Returned(k)
    /\ 10 + DaysFromReference(SolarOf(res[k])) < 0
    /\ last.valid
    /\ last.res[k].status = "ok"
    /\ SolarOf(res[k]).ord = SolarOf(last.res[k]).ord + 1

(***************************************************************************)
(* The cyclic type on its own: two instances a = CyclicVariable(n) and     *)
(* b = CyclicVariable(m) at heap addresses 1 and 2, and one call on them.  *)
(***************************************************************************)
IndexInputs == (0 - MaxIndex) .. (59 + MaxIndex)

InitCyclic ==
  /\ \E n \in IndexInputs, m \in IndexInputs :
       heap = << CyclicVariable(n), CyclicVariable(m) >>
  /\ ret = NoRet
  /\ now = REF_DATE
  /\ elapsed = 0
  /\ longitude = 0
  /\ res = NoCalls
  /\ last = [valid |-> FALSE, at |-> REF_DATE, res |-> NoCalls]

\* heap[b] + (heap[a] - heap[b]) == heap[a]: __sub__ gives the distance, __add__
\* allocates the shifted instance, == compares it with heap[a]
RoundTrip(a, b) ==
  /\ ret.op = "none"
  /\ LET distance == cv_sub(heap[a], heap[b])
         shifted  == Len(heap) + 1
     IN  /\ heap' = Append(heap, cv_add(heap[b], distance))
         /\ ret' = [op |-> "round_trip", a |-> a, b |-> b, distance |-> distance,
                    shifted |-> shifted, equal |-> cv_eq(heap', shifted, a)]
  /\ UNCHANGED << now, elapsed, longitude, res, last >>

\* heap[a].is_combining(heap[b])
IsCombining(a, b) ==
  /\ ret.op = "none"
  /\ ret' = [op |-> "is_combining", a |-> a, b |-> b,
             result |-> call_is_combining(heap[a], heap[b])]
  /\ UNCHANGED << now, elapsed, longitude, res, last, heap >>

NextCyclic ==
  \/ \E a \in { 1, 2 }, b \in { 1, 2 } : RoundTrip(a, b)
  \/ \E a \in { 1, 2 }, b \in { 1, 2 } : IsCombining(a, b)

SpecCyclic == InitCyclic /\ [][NextCyclic]_vars

\* C4: b.add(a.subtract(b)) == a for all coordinates a and b, == being the
\* type's own equality.
C4_RoundTripEqual == (ret.op = "round_trip") => ret.equal

\* the six Liu He pairs of branch indices
LIU_HE == { { 0, 1 }, { 2, 11 }, { 3, 10 }, { 4, 9 }, { 5, 8 }, { 6, 7 } }

\* C5: is_combining on the bound type returns a boolean, true exactly for the
\* six Liu He pairs of branch indices.
C5_IsCombiningLiuHe ==
  (ret.op = "is_combining") =>
    /\ ret.result.status = "ok"
    /\ ret.result.value
         <=> ({ heap[ret.a].index % 12, heap[ret.b].index % 12 } \in LIU_HE)

(***************************************************************************)
(* Argument ranges: get_coordinates over longitudes inside and outside     *)
(* [-180, 180], calculate_equation_of_time over days of the year inside    *)
(* and outside [1, 366].                                                   *)
(***************************************************************************)
ArgLongitudes == { -200, -181, -180, 0, 180, 181, 200 }

ArgDays == { -1, 0, 1, 81, 366, 367, 400 }

InitArgs ==
  /\ now \in StartInstants
  /\ elapsed = 0
  /\ longitude \in ArgLongitudes
  /\ res = NoCalls
  /\ last = [valid |-> FALSE, at |-> now, res |-> NoCalls]
  /\ heap = << >>
  /\ ret = NoRet

\* calculate_equation_of_time(day_of_year) called directly: it returns a float
EquationOfTime(d) ==
  /\ ret.op = "none"
  /\ ret' = [op |-> "calculate_equation_of_time", day_of_year |-> d,
             result |-> [status |-> "ok", value |-> calculate_equation_of_time(d)]]
  /\ UNCHANGED << now, elapsed, longitude, res, last, heap >>

NextArgs ==
  \/ \E z \in Zones, p \in Precision : GetCoordinates(z, p)
  \/ \E d \in ArgDays : EquationOfTime(d)

SpecArgs == InitArgs /\ [][NextArgs]_vars

\* C9: get_coordinates with a longitude outside [-180, 180] and
\* calculate_equation_of_time with a day of the year outside [1, 366] report
\* InvalidArgument and return no result.
C9_InvalidArgumentReported ==
  /\ \A k \in Slots :
       (Called(k) /\ (longitude < -180 \/ longitude > 180))
       => res[k].status = "InvalidArgument"
  /\ (ret.op = "calculate_equation_of_time" /\ ret.day_of_year \notin 1 .. 366)
     => ret.result.status = "InvalidArgument"
=============================================================================
